---- MODULE Spec2Model ----
(***************************************************************************)
(* Model of docs/archive/update-openapi-security.py: a one-shot batch job  *)
(* that backs up openapi.yaml, merges a security fragment into it, injects *)
(* shared response references into every HTTP operation, and overwrites    *)
(* openapi.yaml with the result.                                           *)
(*                                                                         *)
(* Encoding of YAML / Python values:                                       *)
(*   - a mapping (dict) is a function whose domain is its key set;         *)
(*   - the empty mapping {} is the function with empty domain, <<>>;       *)
(*   - None (an empty YAML node) is the one-key record Null;               *)
(*   - a str is a sequence of text chunks, so that + is \o;                *)
(*   - scalar leaves (a version, a definition body) are TLA+ strings.      *)
(***************************************************************************)
EXTENDS Naturals, Sequences, FiniteSets, TLC

VARIABLES
    pc,             \* the step main() is about to execute
    fs,             \* the three files next to the script: name -> content
    openapi_data,   \* the primary document tree held in memory
    security_data,  \* the fragment document tree held in memory
    exitCode,       \* the exit status the process ends with
    reported,       \* which final message was printed in this run
    trace,          \* the steps this run has completed, in order
    pre,            \* history: openapi_data as it entered the last transformation
    startFs,        \* history: the files as they were when this run started
    firstFs,        \* history: the files as they were when the first run started
    exits,          \* history: exit codes of the earlier runs
    run             \* number of the current run

vars == <<pc, fs, openapi_data, security_data, exitCode, reported, trace,
          pre, startFs, firstFs, exits, run>>

----------------------------------------------------------------------------
(* Bounds of the model *)

MaxRuns == 2
MaxDescLen == 1

----------------------------------------------------------------------------
(* Python values *)

Null == [null |-> TRUE]

IsNull(v) == DOMAIN v = {"null"}

EmptyMap == <<>>

\* k in m
Has(m, k) == m # EmptyMap /\ k \in DOMAIN m

\* m[k] = v
Put(m, k, v) == [x \in (DOMAIN m) \cup {k} |-> IF x = k THEN v ELSE m[x]]

\* m.get(k, default)
Get(m, k, default) == IF Has(m, k) THEN m[k] ELSE default

\* m.update(n), which is also what "for k, v in n.items(): m[k] = v" does
Update(m, n) ==
    [x \in (DOMAIN m) \cup (DOMAIN n) |-> IF x \in DOMAIN n THEN n[x] ELSE m[x]]

----------------------------------------------------------------------------
(* update_openapi_with_security, after both files are loaded *)

TargetVersion == "2.10.0"

\* The changelog literal, as two chunks of text.
new_version_info ==
    << "\n    **Version 2.10.0 - January 13, 2025:**\n",
       "    **Enterprise Security & Rate Limiting Enhancement:** ... quality score.\n\n        " >>

\* Variant: the changelog goes after the description instead of before it.
StampInfo_Appends(d) ==
    IF Has(d, "info")
    THEN LET description == Get(d.info, "description", <<>>)
             stamped == Put(d.info, "version", TargetVersion)
         IN  Put(d, "info", Put(stamped, "description", description \o new_version_info))
    ELSE d

StartsWith(text, head) ==
    Len(text) >= Len(head) /\ SubSeq(text, 1, Len(head)) = head

\* Variant: a description that already starts with the changelog is kept.
StampInfo_OnlyOnce(d) ==
    IF Has(d, "info")
    THEN LET description == Get(d.info, "description", <<>>)
             stamped == Put(d.info, "version", TargetVersion)
         IN  IF StartsWith(description, new_version_info)
             THEN Put(d, "info", stamped)
             ELSE Put(d, "info", Put(stamped, "description", new_version_info \o description))
    ELSE d

StampInfo(d) ==
    IF Has(d, "info")
    THEN LET description == Get(d.info, "description", <<>>)
             stamped == Put(d.info, "version", TargetVersion)
         IN  Put(d, "info", Put(stamped, "description", new_version_info \o description))
    ELSE d

EnsureComponents(d) ==
    IF ~Has(d, "components") THEN Put(d, "components", EmptyMap) ELSE d

EnsureSection(d, section) ==
    IF ~Has(d.components, section)
    THEN Put(d, "components", Put(d.components, section, EmptyMap))
    ELSE d

\* Variant: a name the primary already defines keeps the primary's definition.
MergeSection_KeepsExisting(d, f, section) ==
    Put(d, "components",
        Put(d.components, section, Update(f.components[section], d.components[section])))

MergeSection(d, f, section) ==
    Put(d, "components",
        Put(d.components, section, Update(d.components[section], f.components[section])))

\* Variant: securitySchemes is created like schemas and responses are.
MergeSecuritySchemes_Creates(d, f) ==
    Put(d, "components",
        Put(d.components, "securitySchemes",
            Update(Get(d.components, "securitySchemes", EmptyMap),
                   Get(f.components, "securitySchemes", EmptyMap))))

MergeSecuritySchemes(d, f) ==
    IF Has(d.components, "securitySchemes")
    THEN MergeSection(d, f, "securitySchemes")
    ELSE d

\* The conditions under which the function raises instead of returning:
\* a membership test or an item access on None, or a missing key of the fragment.
MergeRaises(d, f) ==
    IF IsNull(d) \/ IsNull(f) THEN TRUE
    ELSE IF ~Has(f, "components") THEN TRUE
    ELSE IF ~Has(f.components, "schemas") THEN TRUE
    ELSE IF ~Has(f.components, "responses") THEN TRUE
    ELSE IF ~Has(d, "components") THEN FALSE
    ELSE Has(d.components, "securitySchemes") /\ ~Has(f.components, "securitySchemes")

update_openapi_with_security(d, f) ==
    LET d1 == StampInfo(d)
        d2 == EnsureSection(EnsureComponents(d1), "schemas")
        d3 == MergeSection(d2, f, "schemas")
        d4 == MergeSection(EnsureSection(d3, "responses"), f, "responses")
    IN  MergeSecuritySchemes(d4, f)

----------------------------------------------------------------------------
(* add_rate_limiting_to_paths *)

rate_limit_response == ("$ref" :> "#/components/responses/RateLimit")
enhanced_400_response == ("$ref" :> "#/components/responses/BadRequest")
enhanced_401_response == ("$ref" :> "#/components/responses/Unauthorized")
enhanced_403_response == ("$ref" :> "#/components/responses/Forbidden")
enhanced_404_response == ("$ref" :> "#/components/responses/NotFound")
enhanced_409_response == ("$ref" :> "#/components/responses/Conflict")
enhanced_500_response == ("$ref" :> "#/components/responses/InternalServerError")

HttpMethods == {"get", "post", "put", "delete", "patch"}

\* str.lower() on the method names the model uses
Lower(method_name) ==
    CASE method_name = "GET"     -> "get"
      [] method_name = "Post"    -> "post"
      [] method_name = "PATCH"   -> "patch"
      [] method_name = "HEAD"    -> "head"
      [] OTHER                   -> method_name

\* Variant: the reference is set whether or not the code was declared.
Enhance_Always(responses, code, enhanced) == Put(responses, code, enhanced)

\* if code in responses: responses[code] = enhanced
Enhance(responses, code, enhanced) ==
    IF Has(responses, code) THEN Put(responses, code, enhanced) ELSE responses

\* Variant: an operation's own 429 entry is kept.
EnhanceResponses_Keeps429(responses) ==
    LET r0 == IF Has(responses, "429")
              THEN responses
              ELSE Put(responses, "429", rate_limit_response)
        r1 == Enhance(r0, "400", enhanced_400_response)
        r2 == Enhance(r1, "401", enhanced_401_response)
        r3 == Enhance(r2, "403", enhanced_403_response)
        r4 == Enhance(r3, "404", enhanced_404_response)
        r5 == Enhance(r4, "409", enhanced_409_response)
    IN  Enhance(r5, "500", enhanced_500_response)

EnhanceResponses(responses) ==
    LET r0 == Put(responses, "429", rate_limit_response)
        r1 == Enhance(r0, "400", enhanced_400_response)
        r2 == Enhance(r1, "401", enhanced_401_response)
        r3 == Enhance(r2, "403", enhanced_403_response)
        r4 == Enhance(r3, "404", enhanced_404_response)
        r5 == Enhance(r4, "409", enhanced_409_response)
    IN  Enhance(r5, "500", enhanced_500_response)

IsHttpMethod(method_name) == Lower(method_name) \in HttpMethods

\* Variant: an operation without responses is given one holding the 429.
EnhanceOperation_AddsResponses(method_name, operation) ==
    IF IsHttpMethod(method_name)
    THEN Put(operation, "responses",
             EnhanceResponses(Get(operation, "responses", EmptyMap)))
    ELSE operation

EnhanceOperation(method_name, operation) ==
    IF IsHttpMethod(method_name)
    THEN IF Has(operation, "responses")
         THEN Put(operation, "responses", EnhanceResponses(operation.responses))
         ELSE operation
    ELSE operation

\* .items() on None, a membership test on None, or an item assignment on None
OperationRaises(method_name, operation) ==
    IF ~IsHttpMethod(method_name) THEN FALSE
    ELSE IF IsNull(operation) THEN TRUE
    ELSE IF ~Has(operation, "responses") THEN FALSE
    ELSE IsNull(operation.responses)

PathItemRaises(path_obj) ==
    IF IsNull(path_obj) THEN TRUE
    ELSE \E method_name \in DOMAIN path_obj :
            OperationRaises(method_name, path_obj[method_name])

EnhanceRaises(d) ==
    IF ~Has(d, "paths") THEN FALSE
    ELSE IF IsNull(d.paths) THEN TRUE
    ELSE \E path_name \in DOMAIN d.paths : PathItemRaises(d.paths[path_name])

add_rate_limiting_to_paths(d) ==
    IF ~Has(d, "paths")
    THEN d
    ELSE Put(d, "paths",
             [path_name \in DOMAIN d.paths |->
                [method_name \in DOMAIN d.paths[path_name] |->
                    EnhanceOperation(method_name, d.paths[path_name][method_name])]])

----------------------------------------------------------------------------
(* The files next to the script *)

\* What a file holds: nothing (no such file), the YAML text of a tree, text
\* that is no YAML, or the cut-off remainder of a write that failed midway.
\* fmt tells hand-written text from the text yaml.dump produces: two texts
\* of the same tree are the same bytes only when their fmt agrees.
Absent == [kind |-> "absent", tree |-> Null, fmt |-> "none"]
Malformed == [kind |-> "malformed", tree |-> Null, fmt |-> "none"]
Partial == [kind |-> "partial", tree |-> Null, fmt |-> "none"]

Written(tree) == [kind |-> "yaml", tree |-> tree, fmt |-> "written"]

\* yaml.dump(data, file, default_flow_style=False, sort_keys=False, width=120)
Dumped(tree) == [kind |-> "yaml", tree |-> tree, fmt |-> "dumped"]

Exists(content) == content.kind # "absent"

\* The trees yaml.safe_load can return for a content; none when it raises.
\* A cut-off text may be no YAML at all, or may be cut to the empty document.
Parsed(content) ==
    CASE content.kind = "yaml"    -> {content.tree}
      [] content.kind = "partial" -> {Null}
      [] OTHER                    -> {}

LoadRaises(content) == content.kind \in {"absent", "malformed", "partial"}

----------------------------------------------------------------------------
(* main *)

Pipeline == <<"validate", "backup", "load", "merge", "enhance", "save">>

\* except Exception as e: print(...); sys.exit(1)
Raise ==
    /\ pc' = "report_failure"

\* Variant: only openapi.yaml is looked for.
ValidateInputs_PrimaryOnly ==
    /\ pc = "validate"
    /\ \/ /\ ~Exists(fs.openapi)
          /\ reported' = "openapi_not_found"
          /\ exitCode' = 1
          /\ pc' = "exited"
          /\ trace' = trace \o <<"validate", "report_failure">>
       \/ /\ Exists(fs.openapi)
          /\ pc' = "backup"
          /\ trace' = Append(trace, "validate")
          /\ UNCHANGED <<reported, exitCode>>
    /\ UNCHANGED <<fs, openapi_data, security_data, pre, startFs, firstFs, exits, run>>

\* if not openapi_file.exists(): ... sys.exit(1)
\* if not security_schemas_file.exists(): ... sys.exit(1)
ValidateInputs ==
    /\ pc = "validate"
    /\ \/ /\ ~Exists(fs.openapi)
          /\ reported' = "openapi_not_found"
          /\ exitCode' = 1
          /\ pc' = "exited"
          /\ trace' = trace \o <<"validate", "report_failure">>
       \/ /\ Exists(fs.openapi)
          /\ ~Exists(fs.security)
          /\ reported' = "security_not_found"
          /\ exitCode' = 1
          /\ pc' = "exited"
          /\ trace' = trace \o <<"validate", "report_failure">>
       \/ /\ Exists(fs.openapi)
          /\ Exists(fs.security)
          /\ pc' = "backup"
          /\ trace' = Append(trace, "validate")
          /\ UNCHANGED <<reported, exitCode>>
    /\ UNCHANGED <<fs, openapi_data, security_data, pre, startFs, firstFs, exits, run>>

\* Variant: the run goes on without having copied anything.
Backup_Skipped ==
    /\ pc = "backup"
    /\ trace' = Append(trace, "backup")
    /\ pc' = "load"
    /\ UNCHANGED <<fs, openapi_data, security_data, exitCode, reported, pre,
                   startFs, firstFs, exits, run>>

\* shutil.copy2(openapi_file, backup_file): the copy succeeds, or it raises
\* having written nothing, a part, or all of the data (copystat failing).
Backup ==
    /\ pc = "backup"
    /\ trace' = Append(trace, "backup")
    /\ \/ /\ fs' = [fs EXCEPT !.backup = fs.openapi]
          /\ pc' = "load"
       \/ /\ \E left \in {fs.backup, Partial, fs.openapi} :
                fs' = [fs EXCEPT !.backup = left]
          /\ Raise
    /\ UNCHANGED <<openapi_data, security_data, exitCode, reported, pre,
                   startFs, firstFs, exits, run>>

\* openapi_data = load_yaml_file(openapi_file)
\* security_data = load_yaml_file(security_schemas_file)
Load ==
    /\ pc = "load"
    /\ trace' = Append(trace, "load")
    /\ \/ /\ LoadRaises(fs.openapi) \/ LoadRaises(fs.security)
          /\ Raise
          /\ UNCHANGED <<openapi_data, security_data>>
       \/ /\ \E d \in Parsed(fs.openapi), f \in Parsed(fs.security) :
                /\ openapi_data' = d
                /\ security_data' = f
          /\ pc' = "merge"
    /\ UNCHANGED <<fs, exitCode, reported, pre, startFs, firstFs, exits, run>>

\* the rest of update_openapi_with_security
Merge ==
    /\ pc = "merge"
    /\ trace' = Append(trace, "merge")
    /\ pre' = openapi_data
    /\ \/ /\ MergeRaises(openapi_data, security_data)
          /\ Raise
          /\ UNCHANGED openapi_data
       \/ /\ ~MergeRaises(openapi_data, security_data)
          /\ openapi_data' = update_openapi_with_security(openapi_data, security_data)
          /\ pc' = "enhance"
    /\ UNCHANGED <<fs, security_data, exitCode, reported, startFs, firstFs, exits, run>>

\* updated_openapi = add_rate_limiting_to_paths(updated_openapi)
EnhancePaths ==
    /\ pc = "enhance"
    /\ trace' = Append(trace, "enhance")
    /\ pre' = openapi_data
    /\ \/ /\ EnhanceRaises(openapi_data)
          /\ Raise
          /\ UNCHANGED openapi_data
       \/ /\ ~EnhanceRaises(openapi_data)
          /\ openapi_data' = add_rate_limiting_to_paths(openapi_data)
          /\ pc' = "save"
    /\ UNCHANGED <<fs, security_data, exitCode, reported, startFs, firstFs, exits, run>>

\* save_yaml_file(updated_openapi, openapi_file): open(..., 'w') raises and
\* leaves the file alone, or truncates it; the dump then completes or raises
\* midway, leaving a cut-off file.
Save ==
    /\ pc = "save"
    /\ trace' = Append(trace, "save")
    /\ \/ /\ fs' = [fs EXCEPT !.openapi = Dumped(openapi_data)]
          /\ pc' = "report_success"
       \/ /\ \E left \in {fs.openapi, Partial} :
                fs' = [fs EXCEPT !.openapi = left]
          /\ Raise
    /\ UNCHANGED <<openapi_data, security_data, exitCode, reported, pre,
                   startFs, firstFs, exits, run>>

\* the closing prints; main returns and the process ends with status 0
ReportSuccess ==
    /\ pc = "report_success"
    /\ trace' = Append(trace, "report_success")
    /\ reported' = "success"
    /\ pc' = "exited"
    /\ UNCHANGED <<fs, openapi_data, security_data, exitCode, pre,
                   startFs, firstFs, exits, run>>

\* Variant: the failure is printed and the process ends with status 0.
ReportFailure_NoExit ==
    /\ pc = "report_failure"
    /\ trace' = Append(trace, "report_failure")
    /\ reported' = "exception"
    /\ pc' = "exited"
    /\ UNCHANGED <<fs, openapi_data, security_data, exitCode, pre,
                   startFs, firstFs, exits, run>>

\* print(f"Error updating OpenAPI specification: {e}"); sys.exit(1)
ReportFailure ==
    /\ pc = "report_failure"
    /\ trace' = Append(trace, "report_failure")
    /\ reported' = "exception"
    /\ exitCode' = 1
    /\ pc' = "exited"
    /\ UNCHANGED <<fs, openapi_data, security_data, pre, startFs, firstFs, exits, run>>

\* The script is started again: a new process, the files as the last run left them.
Rerun ==
    /\ pc = "exited"
    /\ run < MaxRuns
    /\ run' = run + 1
    /\ exits' = Append(exits, exitCode)
    /\ startFs' = fs
    /\ pc' = "validate"
    /\ exitCode' = 0
    /\ reported' = "nothing"
    /\ trace' = <<>>
    /\ openapi_data' = Null
    /\ security_data' = Null
    /\ pre' = Null
    /\ UNCHANGED <<fs, firstFs>>

----------------------------------------------------------------------------
(* The documents the model is run on *)

SeqsUpTo(S, n) == UNION {[1..k -> S] : k \in 0..n}

\* A key that may be missing: no entry, or the key with one of the values.
Optional(key, values) == {EmptyMap} \cup {key :> v : v \in values}

Descriptions == SeqsUpTo({"X", "Y"}, MaxDescLen)

Infos ==
    {[version |-> "1.0.0"]}
        \cup {[version |-> "1.0.0", description |-> text] : text \in Descriptions}

PrimarySection ==
    [schemas         |-> ("S" :> "primary S") @@ ("Own" :> "primary Own"),
     responses       |-> ("RateLimit" :> "primary RateLimit") @@ ("Teapot" :> "primary Teapot"),
     securitySchemes |-> ("basicAuth" :> "primary basicAuth") @@ ("apiKey" :> "primary apiKey")]

FragmentSection ==
    [schemas         |-> ("S" :> "fragment S") @@ ("RateLimitError" :> "fragment RateLimitError"),
     responses       |-> ("RateLimit" :> "fragment RateLimit") @@ ("NotFound" :> "fragment NotFound"),
     securitySchemes |-> ("basicAuth" :> "fragment basicAuth") @@ ("oauth2" :> "fragment oauth2")]

PrimaryComponents ==
    {a @@ b @@ c :
        a \in Optional("schemas", {EmptyMap, PrimarySection.schemas}),
        b \in Optional("responses", {EmptyMap, PrimarySection.responses}),
        c \in Optional("securitySchemes", {EmptyMap, PrimarySection.securitySchemes})}

FullFragment == [components |-> FragmentSection]

\* Fragments that merge, and fragments on which the merge raises.
Fragments ==
    {[components |-> a @@ b @@ c] :
        a \in Optional("schemas", {EmptyMap, FragmentSection.schemas}),
        b \in Optional("responses", {EmptyMap, FragmentSection.responses}),
        c \in Optional("securitySchemes", {FragmentSection.securitySchemes})}
        \cup {EmptyMap, Null}

OldResponse(code) == ("description" :> "old " \o code)

StatusCodes == {"200", "400", "401", "403", "404", "409", "429", "500"}

ResponseMaps == {[code \in codes |-> OldResponse(code)] : codes \in SUBSET StatusCodes}

Operations ==
    {[summary |-> "op"]} \cup {[summary |-> "op", responses |-> r] : r \in ResponseMaps}

MethodNames ==
    {"get", "post", "put", "delete", "patch", "GET", "Post", "PATCH",
     "head", "options", "trace", "HEAD"}

SomeResponses == [code \in {"200", "404", "409"} |-> OldResponse(code)]

\* A path item with operations of every kind and a vendor extension.
MixedPathItem ==
    ("get" :> [summary |-> "op"])
        @@ ("delete" :> [summary |-> "op", responses |-> SomeResponses])
        @@ ("options" :> [summary |-> "op", responses |-> SomeResponses])
        @@ ("head" :> Null)
        @@ ("x-meta" :> ("note" :> "n"))

SmallPaths == ("/a" :> ("get" :> [summary |-> "op", responses |-> SomeResponses]))

\* paths values on which the enhancer raises
BrokenPaths ==
    {Null, ("/a" :> Null), ("/a" :> ("get" :> Null)), SmallPaths @@ ("/b" :> Null)}

MainPrimaryDocs ==
    {a @@ b @@ c :
        a \in Optional("info", Infos),
        b \in Optional("components", {EmptyMap, PrimarySection}),
        c \in Optional("paths", {SmallPaths, ("/a" :> Null)})}
        \cup {Null}

MainFragments ==
    {FullFragment,
     [components |-> [schemas |-> FragmentSection.schemas]],
     [components |-> [schemas |-> FragmentSection.schemas,
                      responses |-> FragmentSection.responses]]}

MergeInputs ==
    {a @@ b @@ c :
        a \in Optional("info", Infos),
        b \in Optional("components", PrimaryComponents),
        c \in Optional("paths", {SmallPaths})}
        \cup {Null}

EnhanceBase == [info |-> [version |-> TargetVersion], components |-> FragmentSection]

EnhanceInputs ==
    {EnhanceBase @@ ("paths" :> (("/a" :> (m :> op)) @@ ("/b" :> MixedPathItem))) :
        m \in MethodNames, op \in Operations}
        \cup {EnhanceBase @@ ("paths" :> broken) : broken \in BrokenPaths}
        \cup {EmptyMap, EnhanceBase, EnhanceBase @@ ("paths" :> EmptyMap)}

----------------------------------------------------------------------------
(* Specifications *)

\* A process that has just started, with the given files next to the script.
Started(files) ==
    /\ fs = files
    /\ startFs = files
    /\ firstFs = files
    /\ pc = "validate"
    /\ exitCode = 0
    /\ reported = "nothing"
    /\ trace = <<>>
    /\ openapi_data = Null
    /\ security_data = Null
    /\ pre = Null
    /\ exits = <<>>
    /\ run = 1

Init ==
    \E primary \in {Absent, Malformed} \cup {Written(d) : d \in MainPrimaryDocs},
       fragment \in {Absent, Malformed} \cup {Written(f) : f \in MainFragments},
       backup \in {Absent, Written(EnhanceBase)} :
        Started([openapi |-> primary, security |-> fragment, backup |-> backup])

Step ==
    \/ ValidateInputs
    \/ Backup
    \/ Load
    \/ Merge
    \/ EnhancePaths
    \/ Save
    \/ ReportSuccess
    \/ ReportFailure

Next == Step \/ Rerun

Spec == Init /\ [][Next]_vars

\* A started process runs on until it exits; nothing makes a user start it again.
FairSpec == Spec /\ WF_vars(Step)

\* update_openapi_with_security on its own: both documents are loaded.
InitMerge ==
    \E d \in MergeInputs, f \in Fragments :
        /\ fs = [openapi |-> Written(d), security |-> Written(f), backup |-> Written(d)]
        /\ startFs = [openapi |-> Written(d), security |-> Written(f), backup |-> Absent]
        /\ firstFs = startFs
        /\ pc = "merge"
        /\ exitCode = 0
        /\ reported = "nothing"
        /\ trace = <<"validate", "backup", "load">>
        /\ openapi_data = d
        /\ security_data = f
        /\ pre = Null
        /\ exits = <<>>
        /\ run = 1

SpecMerge == InitMerge /\ [][Merge]_vars

\* add_rate_limiting_to_paths on its own: the document is any tree.
InitEnhance ==
    \E d \in EnhanceInputs :
        /\ fs = [openapi |-> Written(d), security |-> Written(FullFragment),
                 backup |-> Written(d)]
        /\ startFs = [openapi |-> Written(d), security |-> Written(FullFragment),
                      backup |-> Absent]
        /\ firstFs = startFs
        /\ pc = "enhance"
        /\ exitCode = 0
        /\ reported = "nothing"
        /\ trace = <<"validate", "backup", "load", "merge">>
        /\ openapi_data = d
        /\ security_data = FullFragment
        /\ pre = Null
        /\ exits = <<>>
        /\ run = 1

SpecEnhance == InitEnhance /\ [][EnhancePaths]_vars

----------------------------------------------------------------------------
(* Properties of main *)

Range(s) == {s[i] : i \in 1..Len(s)}

Failures == {"openapi_not_found", "security_not_found", "exception"}

\* What the run has done so far is a prefix of the pipeline, the step it is
\* at is the next one, and an ended run ended in one of the two ways.
RunInOrder ==
    CASE pc = "exited" ->
            \/ /\ trace = Pipeline \o <<"report_success">>
               /\ exitCode = 0
               /\ reported = "success"
               /\ fs.backup = startFs.openapi
               /\ fs.openapi = Dumped(openapi_data)
            \/ /\ \E k \in 1..Len(Pipeline) :
                    trace = SubSeq(Pipeline, 1, k) \o <<"report_failure">>
               /\ exitCode = 1
               /\ reported \in Failures
      [] pc = "report_success" ->
            /\ trace = Pipeline
            /\ exitCode = 0
            /\ reported = "nothing"
      [] pc = "report_failure" ->
            /\ \E k \in 2..Len(Pipeline) : trace = SubSeq(Pipeline, 1, k)
            /\ reported = "nothing"
      [] OTHER ->
            /\ \E k \in 1..Len(Pipeline) :
                    trace = SubSeq(Pipeline, 1, k - 1) /\ pc = Pipeline[k]
            /\ exitCode = 0
            /\ reported = "nothing"

\* C1: a run executes validate, backup, load, merge, enhance, save,
\* report-success in that order; a failure at a step leads to report-failure
\* with no later step executed; every run ends, with exit code 0 after
\* report-success (all steps done) or exit code 1 after report-failure.
C1_LinearRun == [](RunInOrder) /\ ((pc = "validate") ~> (pc = "exited"))

\* A run in which the merge raised: it stopped there and reported the failure.
C1_Witness ==
    /\ pc = "exited"
    /\ trace = <<"validate", "backup", "load", "merge", "report_failure">>
    /\ exitCode = 1

\* C2: whenever openapi.yaml differs from what it held when the run started,
\* openapi-backup.yaml holds exactly what openapi.yaml held when the run started.
C2_BackupBeforeOverwrite ==
    fs.openapi # startFs.openapi => fs.backup = startFs.openapi

\* The save failed midway: openapi.yaml is cut off, and the backup has the original.
C2_Witness ==
    /\ pc = "exited"
    /\ "save" \in Range(trace)
    /\ startFs.openapi.kind = "yaml"
    /\ fs.openapi = Partial
    /\ fs.backup = startFs.openapi
    /\ startFs.backup # startFs.openapi

MissingInput == ~Exists(startFs.openapi) \/ ~Exists(startFs.security)

\* C3: if openapi.yaml or the fragment file is absent when main starts, the
\* run reports the missing file and exits with code 1; no backup is attempted,
\* the backup file is neither created nor changed, openapi.yaml is not modified.
C3_MissingInputAborts ==
    MissingInput =>
        /\ pc \in {"validate", "exited"}
        /\ "backup" \notin Range(trace)
        /\ fs.backup = startFs.backup
        /\ fs.openapi = startFs.openapi
        /\ pc = "exited" =>
              /\ exitCode = 1
              /\ reported = IF ~Exists(startFs.openapi)
                            THEN "openapi_not_found" ELSE "security_not_found"

\* The fragment file is the missing one, and the run has ended.
C3_Witness ==
    /\ pc = "exited"
    /\ Exists(startFs.openapi)
    /\ ~Exists(startFs.security)
    /\ startFs.backup = Absent
    /\ reported = "security_not_found"

Succeeded == pc = "exited" /\ reported = "success"

\* C6: after a successful run on a primary document that has info,
\* info.version is "2.10.0" and info.description is the changelog block
\* followed by the original description (empty when there was none).
C6_VersionAndChangelog ==
    (Succeeded /\ Has(startFs.openapi.tree, "info")) =>
        LET before == startFs.openapi.tree.info
            after == fs.openapi.tree.info
        IN  /\ after.version = "2.10.0"
            /\ Len(after.description) = Len(new_version_info) + Len(Get(before, "description", <<>>))
            /\ SubSeq(after.description, 1, Len(new_version_info)) = new_version_info
            /\ SubSeq(after.description, Len(new_version_info) + 1, Len(after.description))
                  = Get(before, "description", <<>>)

\* A successful run on a document whose description was "X".
C6_Witness ==
    /\ Succeeded
    /\ Has(startFs.openapi.tree, "info")
    /\ Has(startFs.openapi.tree.info, "description")
    /\ startFs.openapi.tree.info.description = <<"X">>
    /\ startFs.openapi.tree.info.version = "1.0.0"

TwoRunsSucceeded == run = 2 /\ Succeeded /\ exits = <<0>>

\* C9: two successful runs in succession leave a description made of the
\* changelog block twice, followed by the description the first run started from.
C9_NotIdempotent ==
    (TwoRunsSucceeded /\ Has(firstFs.openapi.tree, "info")) =>
        /\ fs.openapi.tree.info.version = "2.10.0"
        /\ fs.openapi.tree.info.description =
              new_version_info \o new_version_info
                  \o Get(firstFs.openapi.tree.info, "description", <<>>)

\* Two successful runs from a document whose description was "X".
C9_Witness ==
    /\ TwoRunsSucceeded
    /\ Has(firstFs.openapi.tree, "info")
    /\ Has(firstFs.openapi.tree.info, "description")
    /\ firstFs.openapi.tree.info.description = <<"X">>
    /\ Len(fs.openapi.tree.info.description) = 2 * Len(new_version_info) + 1

----------------------------------------------------------------------------
(* Properties of update_openapi_with_security *)

Merged == pc = "enhance"

\* C7: after the merge, every name of the fragment's components.schemas and
\* components.responses is in the primary's mapping of the same name, with
\* exactly the fragment's definition; the mappings exist afterwards even when
\* the primary had no components, schemas or responses before.
C7_FragmentDefinitionsWin ==
    Merged =>
        \A section \in {"schemas", "responses"} :
            /\ Has(openapi_data, "components")
            /\ Has(openapi_data.components, section)
            /\ \A name \in DOMAIN security_data.components[section] :
                  /\ Has(openapi_data.components[section], name)
                  /\ openapi_data.components[section][name]
                        = security_data.components[section][name]

\* The primary defined schema S differently and had no responses mapping.
C7_Witness ==
    /\ Merged
    /\ Has(pre, "components")
    /\ Has(pre.components, "schemas")
    /\ Has(pre.components.schemas, "S")
    /\ pre.components.schemas["S"] = "primary S"
    /\ ~Has(pre.components, "responses")
    /\ security_data = FullFragment
    /\ openapi_data.components.schemas["S"] = "fragment S"
    /\ openapi_data.components.responses["NotFound"] = "fragment NotFound"

PrimaryHadSchemes == Has(pre, "components") /\ Has(pre.components, "securitySchemes")

\* C8: components.securitySchemes is never created by the merge; when the
\* primary has it, afterwards every key of the fragment's securitySchemes is
\* in it with the fragment's value and every other key it had keeps its value.
C8_SecuritySchemesUpdatedNotCreated ==
    Merged =>
        IF PrimaryHadSchemes
        THEN LET before == pre.components.securitySchemes
                 given == security_data.components.securitySchemes
                 after == openapi_data.components.securitySchemes
             IN  /\ Has(openapi_data.components, "securitySchemes")
                 /\ \A k \in DOMAIN given : Has(after, k) /\ after[k] = given[k]
                 /\ \A k \in (DOMAIN before) \ (DOMAIN given) :
                        Has(after, k) /\ after[k] = before[k]
        ELSE ~Has(openapi_data.components, "securitySchemes")

\* The primary had basicAuth and apiKey; the fragment gives basicAuth and oauth2.
C8_Witness ==
    /\ Merged
    /\ PrimaryHadSchemes
    /\ pre.components.securitySchemes = PrimarySection.securitySchemes
    /\ Has(security_data.components, "securitySchemes")
    /\ openapi_data.components.securitySchemes["apiKey"] = "primary apiKey"
    /\ openapi_data.components.securitySchemes["basicAuth"] = "fragment basicAuth"

----------------------------------------------------------------------------
(* Properties of add_rate_limiting_to_paths *)

Enhanced == pc = "save"

\* The (path, method) entries of a document's paths.
Entries(d) ==
    IF Has(d, "paths")
    THEN {<<p, m>> : p \in DOMAIN d.paths, m \in MethodNames \cup {"x-meta"}}
    ELSE {}

IsEntry(d, e) == Has(d, "paths") /\ Has(d.paths, e[1]) /\ Has(d.paths[e[1]], e[2])

At(d, e) == d.paths[e[1]][e[2]]

HasResponses(d, e) == IsEntry(d, e) /\ Has(At(d, e), "responses")

Listed(e) == e[2] \in {"get", "post", "put", "delete", "patch",
                       "GET", "Post", "PATCH"}

ExpectedReference(code) ==
    "$ref" :> CASE code = "400" -> "#/components/responses/BadRequest"
                [] code = "401" -> "#/components/responses/Unauthorized"
                [] code = "403" -> "#/components/responses/Forbidden"
                [] code = "404" -> "#/components/responses/NotFound"
                [] code = "409" -> "#/components/responses/Conflict"
                [] code = "500" -> "#/components/responses/InternalServerError"
                [] code = "429" -> "#/components/responses/RateLimit"

ErrorCodes == {"400", "401", "403", "404", "409", "500"}

Has429(d, e) ==
    /\ Has(At(d, e).responses, "429")
    /\ At(d, e).responses["429"] = ExpectedReference("429")

Rewritten(before, after, code) ==
    IF Has(before, code)
    THEN Has(after, code) /\ after[code] = ExpectedReference(code)
    ELSE ~Has(after, code)

SameBut(m, n, k) ==
    /\ DOMAIN m = DOMAIN n
    /\ \A x \in (DOMAIN m) \ {k} : m[x] = n[x]

\* C10: the enhancer changes nothing but the responses mappings of operations
\* that had one: an operation without a responses mapping is left as it was,
\* and a document without paths is returned as it was, without an error.
C10_OnlyResponsesChange ==
    /\ pc = "report_failure" => Has(pre, "paths")
    /\ Enhanced =>
          IF ~Has(pre, "paths")
          THEN openapi_data = pre
          ELSE /\ SameBut(pre, openapi_data, "paths")
               /\ DOMAIN pre.paths = DOMAIN openapi_data.paths
               /\ \A p \in DOMAIN pre.paths :
                     /\ DOMAIN pre.paths[p] = DOMAIN openapi_data.paths[p]
                     /\ \A m \in DOMAIN pre.paths[p] :
                           IF Has(pre.paths[p][m], "responses")
                           THEN SameBut(pre.paths[p][m], openapi_data.paths[p][m], "responses")
                           ELSE openapi_data.paths[p][m] = pre.paths[p][m]

\* A GET operation without responses next to a DELETE operation that got a 429.
C10_Witness ==
    /\ Enhanced
    /\ Has(pre, "paths")
    /\ Has(pre.paths, "/b")
    /\ pre.paths["/b"] = MixedPathItem
    /\ openapi_data.paths["/b"]["get"] = [summary |-> "op"]
    /\ Has(openapi_data.paths["/b"]["delete"].responses, "429")

====
